---------------------------- MODULE Spec2Model ----------------------------
(***************************************************************************)
(* rocat (src/src/main.rs): a cat(1) clone.  main parses the flags, then   *)
(* pipes standard input, or every non-flag argument opened as a file,      *)
(* through print_lines_to_writer, which numbers, squeezes and escapes the  *)
(* lines of one source.                                                    *)
(*                                                                         *)
(* Text is a sequence of Unicode code points (integers); argument tokens   *)
(* are strings.                                                            *)
(***************************************************************************)
EXTENDS Integers, Sequences, FiniteSets, TLC

VARIABLES
    args,            \* env::args(): args[1] is the program name (Rust args[0])
    options,         \* the Options value built by main
    files,           \* main's `files` vector: the paths not yet attempted
    pc,              \* position of the program
    reader,          \* reader.lines(): the read results not yet consumed, and how many were
    line_number,     \* print_lines_to_writer's counter
    last_was_blank,  \* print_lines_to_writer's flag
    result,          \* value returned by print_lines_to_writer / File::open
    out,             \* everything written to the writer (standard output)
    err,             \* standard error: one entry per message, with the source it is about
    sink,            \* the writer's state: "ok", or "broken" (every write fails)
    errsink,         \* standard error: "ok", or "broken" (a write to it has failed)
    exit_code,       \* process exit status, -1 while running
    srcs,            \* history: the sources attempted so far, in order
    log              \* history: one entry per line that passed the squeeze check

vars == <<args, options, files, pc, reader, line_number, last_was_blank,
          result, out, err, sink, errsink, exit_code, srcs, log>>

---------------------------------------------------------------------------
(* Bounds of the model.                                                    *)

MaxLines == 4        \* lines per text of the transformer specification
MaxFlagArgs == 3     \* arguments after the program name, option parsing specification
MaxArgs == 3         \* arguments after the program name, whole-program specification
MaxCounterLines == 3 \* lines of a source, counter specification

---------------------------------------------------------------------------
(* Characters.                                                             *)

LF == 10
CR == 13
TAB == 9
CARET == 94
DOLLAR == 36
SPACE == 32
CaretOffset == 64
FieldWidth == 6
U8 == 256
MINUS == 45
\* line 121: line_number is an i32
I32Max == 2147483647
I32Min == (0 - I32Max) - 1

\* char::is_ascii_graphic: U+0021 ..= U+007E
IsAsciiGraphic(c) == c >= 33 /\ c <= 126

\* char::is_ascii_whitespace: space, tab, line feed, form feed, carriage return
IsAsciiWhitespace(c) == c \in {32, 9, 10, 12, 13}

\* char::is_whitespace (Unicode White_Space), which str::trim uses
IsWhitespace(c) ==
    \/ c \in 9..13
    \/ c \in {32, 133, 160, 5760, 8232, 8233, 8239, 8287, 12288}
    \/ c \in 8192..8202

\* str::trim: drop leading and trailing White_Space
RECURSIVE TrimStart(_)
TrimStart(s) ==
    IF s = <<>> THEN <<>>
    ELSE IF IsWhitespace(Head(s)) THEN TrimStart(Tail(s)) ELSE s

RECURSIVE TrimEnd(_)
TrimEnd(s) ==
    IF s = <<>> THEN <<>>
    ELSE IF IsWhitespace(s[Len(s)]) THEN TrimEnd(SubSeq(s, 1, Len(s) - 1)) ELSE s

Trim(s) == TrimEnd(TrimStart(s))

\* line 126: let is_blank = line.trim().is_empty()
IsBlank(line) == Trim(line) = <<>>

---------------------------------------------------------------------------
(* BufRead::lines: split at LF; a piece that LF terminated loses the LF    *)
(* and one CR before it; a final piece without LF is kept as it is; no     *)
(* empty final piece.                                                      *)

RECURSIVE IndexOfLF(_, _)
IndexOfLF(t, i) ==
    IF i > Len(t) THEN 0
    ELSE IF t[i] = LF THEN i ELSE IndexOfLF(t, i + 1)

StripCR(s) ==
    IF s # <<>> /\ s[Len(s)] = CR THEN SubSeq(s, 1, Len(s) - 1) ELSE s

RECURSIVE Lines(_)
Lines(t) ==
    IF t = <<>> THEN <<>>
    ELSE LET k == IndexOfLF(t, 1) IN
         IF k = 0 THEN <<t>>
         ELSE <<StripCR(SubSeq(t, 1, k - 1))>> \o Lines(SubSeq(t, k + 1, Len(t)))

\* The results reader.lines() yields for a source: read number `fault` (0: none)
\* fails (invalid UTF-8 or an I/O fault), the ones before it are the lines.
ReadResults(text, fault) ==
    LET ls == Lines(text)
        n  == IF fault > 0 /\ fault <= Len(ls) THEN fault ELSE Len(ls)
    IN [i \in 1..n |-> IF i = fault THEN [ok |-> FALSE, line |-> <<>>]
                                    ELSE [ok |-> TRUE, line |-> ls[i]]]

---------------------------------------------------------------------------
(* print_lines_to_writer, per line.                                        *)

\* line 128: options.squeeze_blank && is_blank && last_was_blank
Squeezed_IgnorePrev(opts, is_blank, prev_blank) == opts.squeeze_blank /\ is_blank
Squeezed(opts, is_blank, prev_blank) ==
    opts.squeeze_blank /\ is_blank /\ prev_blank

\* lines 133-145: which lines get a number
Numbered(mode, is_blank) ==
    \/ mode = "All"
    \/ mode = "NonBlank" /\ ~is_blank

\* lines 136, 141: line_number += 1 on an i32; at the maximum the addition wraps
\* to the minimum (a build without overflow checks)
NextLineNumber(n) == IF n = I32Max THEN I32Min ELSE n + 1

\* line 136, 141 in a build with overflow checks: the addition panics
CounterOverflows(numbered, n) == numbered /\ n = I32Max

\* the decimal digits of -m for m <= 0, none for 0 (computed on the negative
\* side, where the i32 range has room for the magnitude of every value)
RECURSIVE DigitsOfNeg(_)
DigitsOfNeg(m) ==
    IF m = 0 THEN <<>>
    ELSE LET d == (10 - (m % 10)) % 10
         IN DigitsOfNeg((m + d) \div 10) \o <<48 + d>>

\* format!("{}", n) for an i32: a minus sign for a negative number, then its
\* decimal digits
Digits(n) ==
    IF n = 0 THEN <<48>>
    ELSE IF n < 0 THEN <<MINUS>> \o DigitsOfNeg(n)
    ELSE DigitsOfNeg(0 - n)

RECURSIVE Spaces(_)
Spaces(k) == IF k <= 0 THEN <<>> ELSE <<SPACE>> \o Spaces(k - 1)

\* lines 135, 140: write!(writer, "{:6}\t", line_number): right-aligned in a
\* field of at least 6 characters, then a tab
Prefix(n) ==
    LET d == Digits(n) IN Spaces(FieldWidth - Len(d)) \o d \o <<TAB>>

\* line 153: c as u8 truncates the code point to its low 8 bits
AsU8(c) == c % U8

\* line 151: the guard of the caret arm (reached only when the tab arm did not match)
NonPrinting(opts, c) ==
    opts.show_nonprinting /\ ~IsAsciiGraphic(c) /\ ~IsAsciiWhitespace(c)

\* line 150: the guard of the tab arm
TabArm(opts, c) == c = TAB /\ opts.show_tabs

\* line 153: u8 addition overflows when the truncated code point is 192 or more
CharOverflows(opts, c) ==
    ~TabArm(opts, c) /\ NonPrinting(opts, c) /\ AsU8(c) + CaretOffset >= U8

\* lines 149-156: one character of the body; an overflowing addition wraps
\* (a build without overflow checks)
RenderChar_CaretFirst(opts, c) ==
    IF NonPrinting(opts, c) \/ (opts.show_nonprinting /\ c = TAB)
    THEN <<CARET, (AsU8(c) + CaretOffset) % U8>>
    ELSE IF c = TAB /\ opts.show_tabs THEN <<CARET, 73>>
    ELSE <<c>>
RenderChar_IgnoreFlag(opts, c) ==
    IF TabArm(opts, c) THEN <<CARET, 73>>
    ELSE IF ~IsAsciiGraphic(c) /\ ~IsAsciiWhitespace(c)
    THEN <<CARET, (AsU8(c) + CaretOffset) % U8>>
    ELSE <<c>>
RenderChar(opts, c) ==
    IF TabArm(opts, c) THEN <<CARET, 73>>
    ELSE IF NonPrinting(opts, c) THEN <<CARET, (AsU8(c) + CaretOffset) % U8>>
    ELSE <<c>>

\* lines 147-157: the body of a line
RECURSIVE Body(_, _)
Body(opts, line) ==
    IF line = <<>> THEN <<>>
    ELSE RenderChar(opts, Head(line)) \o Body(opts, Tail(line))

\* the body cannot be built by a build with overflow checks: line 153 panics
Overflows(opts, line) == \E i \in 1..Len(line) : CharOverflows(opts, line[i])

\* lines 161-163
EndMarker(opts) == IF opts.show_ends THEN <<DOLLAR>> ELSE <<>>

\* lines 121-122: the state a call of print_lines_to_writer starts with
NewState_Carried == [line_number |-> line_number, last_was_blank |-> last_was_blank]
NewState == [line_number |-> 1, last_was_blank |-> FALSE]

---------------------------------------------------------------------------
(* The loop of print_lines_to_writer (lines 124-165), one action per line  *)
(* read.  pc = "lines" while the loop runs; the function returns by        *)
(* setting result and pc = "ret".                                          *)

NextRead == Head(reader.rest)
Advance == [rest |-> Tail(reader.rest), pos |-> reader.pos + 1]

\* A write to standard error finds its reader there or gone; once gone it
\* stays gone.  The outcomes of one write:
StderrGone == IF errsink = "broken" THEN {TRUE} ELSE BOOLEAN

\* standard error after a write of msg that found the reader there or gone
StderrAfter(gone) == IF gone THEN "broken" ELSE "ok"
ErrAfter(msg, gone) == IF gone THEN err ELSE Append(err, msg)

\* the history entry of a line that passed the squeeze check: its source, its
\* index in the source, where its output starts, whether its newline was written
Entry(full) ==
    [src |-> Len(srcs), idx |-> reader.pos + 1, line |-> NextRead.line,
     at |-> Len(out), full |-> full]

\* line 124: the iterator is exhausted; line 166: Ok(())
EndOfInput ==
    /\ pc = "lines"
    /\ reader.rest = <<>>
    /\ result' = "ok"
    /\ pc' = "ret"
    /\ UNCHANGED <<args, errsink, options, files, reader, line_number, last_was_blank,
                   out, err, sink, exit_code, srcs, log>>

\* line 125: let line = line?  with a failed read
ReadError ==
    /\ pc = "lines"
    /\ reader.rest # <<>>
    /\ ~NextRead.ok
    /\ reader' = Advance
    /\ result' = "read_err"
    /\ pc' = "ret"
    /\ UNCHANGED <<args, errsink, options, files, line_number, last_was_blank,
                   out, err, sink, exit_code, srcs, log>>

\* lines 128-130: continue
SqueezeLine ==
    /\ pc = "lines"
    /\ reader.rest # <<>>
    /\ NextRead.ok
    /\ Squeezed(options, IsBlank(NextRead.line), last_was_blank)
    /\ reader' = Advance
    /\ UNCHANGED <<args, errsink, options, files, pc, line_number, last_was_blank,
                   result, out, err, sink, exit_code, srcs, log>>

\* lines 131-164 with every write succeeding.  When the caret addition
\* overflows, this is the build without overflow checks (the sum wraps).
EmitLine ==
    /\ pc = "lines"
    /\ reader.rest # <<>>
    /\ NextRead.ok
    /\ sink = "ok"
    /\ LET line     == NextRead.line
           is_blank == IsBlank(line)
           numbered == Numbered(options.numbering_mode, is_blank)
       IN /\ ~Squeezed(options, is_blank, last_was_blank)
          /\ last_was_blank' = is_blank
          /\ line_number' = IF numbered THEN NextLineNumber(line_number) ELSE line_number
          /\ out' = out \o (IF numbered THEN Prefix(line_number) ELSE <<>>)
                        \o Body(options, line) \o EndMarker(options) \o <<LF>>
          /\ log' = Append(log, Entry(TRUE))
    /\ reader' = Advance
    /\ UNCHANGED <<args, errsink, options, files, pc, result, err, sink, exit_code, srcs>>

\* lines 131-153 in a build with overflow checks: the addition of line 136
\* or 141 (the counter at its i32 maximum) or of line 153 panics, after the
\* prefix (if any) was written and before the body is.  Standard output is
\* line-buffered: the prefix, which has no newline, is accepted by the buffer
\* even when the reader is gone, and reaches the reader only if it is there.
PanicLine ==
    /\ pc = "lines"
    /\ reader.rest # <<>>
    /\ NextRead.ok
    /\ LET line     == NextRead.line
           is_blank == IsBlank(line)
           numbered == Numbered(options.numbering_mode, is_blank)
       IN /\ ~Squeezed(options, is_blank, last_was_blank)
          /\ Overflows(options, line) \/ CounterOverflows(numbered, line_number)
          /\ last_was_blank' = is_blank
          /\ line_number' = IF numbered /\ ~CounterOverflows(numbered, line_number)
                            THEN NextLineNumber(line_number) ELSE line_number
          /\ out' = out \o (IF numbered /\ sink = "ok"
                            THEN Prefix(line_number) ELSE <<>>)
          /\ log' = Append(log, Entry(FALSE))
    /\ reader' = Advance
    /\ \E gone \in StderrGone :
          /\ err' = ErrAfter([kind |-> "panic", src |-> Len(srcs), path |-> ""], gone)
          /\ errsink' = StderrAfter(gone)
    /\ exit_code' = 101
    /\ pc' = "exit"
    /\ UNCHANGED <<args, options, files, result, sink, srcs>>

\* lines 131-164 with a write that fails: the reader of standard output is
\* gone, or goes away while the line is being written.  The line is up to four
\* write! calls (135/140, 159, 162, 164) and a long line reaches a pipe in
\* several pieces, so any part of the line short of the whole may have been
\* written when the error comes back; `?` returns it.  With the reader gone
\* beforehand nothing of the line is written.
WriteFail ==
    /\ pc = "lines"
    /\ reader.rest # <<>>
    /\ NextRead.ok
    /\ LET line     == NextRead.line
           is_blank == IsBlank(line)
           numbered == Numbered(options.numbering_mode, is_blank)
           whole    == (IF numbered THEN Prefix(line_number) ELSE <<>>)
                          \o Body(options, line) \o EndMarker(options) \o <<LF>>
       IN /\ ~Squeezed(options, is_blank, last_was_blank)
          /\ last_was_blank' = is_blank
          /\ \E k \in 0..(Len(whole) - 1) :
                /\ sink = "broken" => k = 0
                /\ out' = out \o SubSeq(whole, 1, k)
          /\ log' = Append(log, Entry(FALSE))
    /\ sink' = "broken"
    /\ reader' = Advance
    /\ result' = "write_err"
    /\ pc' = "ret"
    /\ UNCHANGED <<args, errsink, options, files, line_number, err, exit_code, srcs>>

---------------------------------------------------------------------------
(* The transformer on its own: print_lines_to_writer called on an          *)
(* in-memory text with an in-memory writer, as tests::process_string does. *)

Modes == {"None", "All", "NonBlank"}

OptionSets ==
    [numbering_mode : Modes, show_ends : BOOLEAN, squeeze_blank : BOOLEAN,
     show_tabs : BOOLEAN, show_nonprinting : BOOLEAN, unbuffered : {FALSE}]

\* sample lines: empty; blank (space, vertical tab); "a" TAB SOH;
\* DEL U+0100 CR; U+00C0
LineSet ==
    { <<>>, <<32, 11>>, <<97, 9, 1>>, <<127, 256, 13>>, <<192>> }

LineSeqs(n) == UNION { [1..k -> LineSet] : k \in 0..n }

\* the lines joined by LF; the last one is LF-terminated iff term
RECURSIVE JoinLF(_, _)
JoinLF(ls, term) ==
    IF ls = <<>> THEN <<>>
    ELSE IF Len(ls) = 1 THEN ls[1] \o (IF term THEN <<LF>> ELSE <<>>)
    ELSE ls[1] \o <<LF>> \o JoinLF(Tail(ls), term)

Texts(n) == { JoinLF(ls, term) : ls \in LineSeqs(n), term \in BOOLEAN }

InitLines ==
    /\ args = <<"rocat">>
    /\ options \in OptionSets
    /\ files = <<>>
    /\ pc = "lines"
    /\ \E t \in Texts(MaxLines) :
          /\ reader = [rest |-> ReadResults(t, 0), pos |-> 0]
          /\ srcs = <<[kind |-> "cursor", path |-> "", opened |-> TRUE, text |-> t,
                        fault |-> 0, at |-> 0]>>
    /\ line_number = 1
    /\ last_was_blank = FALSE
    /\ result = "none"
    /\ out = <<>>
    /\ err = <<>>
    /\ sink = "ok"
    /\ errsink = "ok"
    /\ exit_code = -1
    /\ log = <<>>

NextLines == EndOfInput \/ SqueezeLine \/ EmitLine \/ PanicLine

SpecLines == InitLines /\ [][NextLines]_vars

\* The line loop taken up within a source, at its start or late in a long
\* source where the counter of line 121 nears the end of its i32 range: the
\* counter and the flag have the values that the lines before have left them
\* with (a counter above 1 takes a numbering mode; a line before that was
\* blank leaves the counter at 1 only when blank lines are not numbered), the
\* cursor holds the lines still to come, and out and log record what is
\* written from here on.
CounterStarts == {1, I32Max - 1}

InitCounter ==
    /\ args = <<"rocat">>
    /\ options \in OptionSets
    /\ files = <<>>
    /\ pc = "lines"
    /\ \E t \in Texts(MaxCounterLines) :
          /\ reader = [rest |-> ReadResults(t, 0), pos |-> 0]
          /\ srcs = <<[kind |-> "cursor", path |-> "", opened |-> TRUE, text |-> t,
                        fault |-> 0, at |-> 0]>>
    /\ line_number \in CounterStarts
    /\ last_was_blank \in BOOLEAN
    /\ line_number > 1 => options.numbering_mode # "None"
    /\ (line_number = 1 /\ last_was_blank) => options.numbering_mode # "All"
    /\ result = "none"
    /\ out = <<>>
    /\ err = <<>>
    /\ sink = "ok"
    /\ errsink = "ok"
    /\ exit_code = -1
    /\ log = <<>>

SpecCounter == InitCounter /\ [][NextLines]_vars

---------------------------------------------------------------------------
(* main (lines 47-90).                                                     *)

\* lines 93-94
FlagTokens ==
    {"-n", "-b", "-e", "-E", "-s", "-t", "-T", "-u", "-v", "-h", "--help", "-?"}

\* line 51
HelpFlags == {"-h", "--help", "-?"}

\* lines 92-95
IsFlag(arg) == arg \in FlagTokens

\* a flag counts only as the first argument
Has_FirstOnly(a, f) == Len(a) > 1 /\ a[2] = f

\* args.iter().any(|arg| arg == f): the whole vector, program name included
Has(a, f) == \E i \in 1..Len(a) : a[i] = f

\* lines 58-64
NumberingMode_BWins(a) ==
    IF Has(a, "-b") THEN "NonBlank" ELSE IF Has(a, "-n") THEN "All" ELSE "None"
NumberingMode(a) ==
    IF Has(a, "-n") THEN "All" ELSE IF Has(a, "-b") THEN "NonBlank" ELSE "None"

\* lines 56-70
ParseOptions(a) ==
    [numbering_mode   |-> NumberingMode(a),
     show_ends        |-> Has(a, "-e") \/ Has(a, "-E"),
     squeeze_blank    |-> Has(a, "-s"),
     show_tabs        |-> Has(a, "-t") \/ Has(a, "-T"),
     show_nonprinting |-> Has(a, "-v"),
     unbuffered       |-> Has(a, "-u")]

\* a lone "-" does not count as a file argument
HasFiles_DashIsStdin(a) == \E i \in 2..Len(a) : ~IsFlag(a[i]) /\ a[i] # "-"

\* line 73: args.iter().skip(1).any(|arg| !is_flag(arg))
HasFiles(a) == \E i \in 2..Len(a) : ~IsFlag(a[i])

\* lines 79-81: args[1..].iter().filter(|arg| !is_flag(arg)).collect()
NotFlag(arg) == ~IsFlag(arg)
\* the program name taken for an argument
FileArgs_NoSkip(a) == SelectSeq(a, NotFlag)

FileArgs(a) == SelectSeq(Tail(a), NotFlag)

\* help wherever a help flag stands among the arguments
HelpRequested_Anywhere(a) == \E i \in 2..Len(a) : a[i] \in HelpFlags

\* line 51
HelpRequested(a) == Len(a) > 1 /\ a[2] \in HelpFlags

\* the text print_help writes, abridged to its first word and the newline
UsageText ==
    << 85, 115, 97, 103, 101, 58, 32, 114, 111, 99, 97, 116, 32, 91, 79, 80,
       84, 73, 79, 78, 93, 46, 46, 46, 32, 91, 70, 73, 76, 69, 93, 46,
       46, 46, 10, 67, 111, 110, 99, 97, 116, 101, 110, 97, 116, 101, 32, 70,
       73, 76, 69, 40, 115, 41, 32, 116, 111, 32, 115, 116, 97, 110, 100, 97,
       114, 100, 32, 111, 117, 116, 112, 117, 116, 46, 10, 10, 87, 105, 116, 104,
       32, 110, 111, 32, 70, 73, 76, 69, 44, 32, 111, 114, 32, 119, 104, 101,
       110, 32, 70, 73, 76, 69, 32, 105, 115, 32, 45, 44, 32, 114, 101, 97,
       100, 32, 115, 116, 97, 110, 100, 97, 114, 100, 32, 105, 110, 112, 117, 116,
       46, 10, 10, 79, 112, 116, 105, 111, 110, 115, 58, 10, 32, 32, 32, 32,
       45, 98, 32, 32, 32, 32, 32, 32, 32, 32, 32, 32, 32, 32, 32, 32,
       110, 117, 109, 98, 101, 114, 32, 110, 111, 110, 101, 109, 112, 116, 121, 32,
       111, 117, 116, 112, 117, 116, 32, 108, 105, 110, 101, 115, 44, 32, 111, 118,
       101, 114, 114, 105, 100, 101, 115, 32, 45, 110, 10, 32, 32, 32, 32, 45,
       69, 44, 32, 45, 101, 32, 32, 32, 32, 32, 32, 32, 32, 32, 32, 100,
       105, 115, 112, 108, 97, 121, 32, 36, 32, 97, 116, 32, 101, 110, 100, 32,
       111, 102, 32, 101, 97, 99, 104, 32, 108, 105, 110, 101, 10, 32, 32, 32,
       32, 45, 110, 32, 32, 32, 32, 32, 32, 32, 32, 32, 32, 32, 32, 32,
       32, 110, 117, 109, 98, 101, 114, 32, 97, 108, 108, 32, 111, 117, 116, 112,
       117, 116, 32, 108, 105, 110, 101, 115, 10, 32, 32, 32, 32, 45, 115, 32,
       32, 32, 32, 32, 32, 32, 32, 32, 32, 32, 32, 32, 32, 115, 117, 112,
       112, 114, 101, 115, 115, 32, 114, 101, 112, 101, 97, 116, 101, 100, 32, 101,
       109, 112, 116, 121, 32, 111, 117, 116, 112, 117, 116, 32, 108, 105, 110, 101,
       115, 10, 32, 32, 32, 32, 45, 116, 44, 32, 45, 84, 32, 32, 32, 32,
       32, 32, 32, 32, 32, 32, 100, 105, 115, 112, 108, 97, 121, 32, 84, 65,
       66, 32, 99, 104, 97, 114, 97, 99, 116, 101, 114, 115, 32, 97, 115, 32,
       94, 73, 10, 32, 32, 32, 32, 45, 117, 32, 32, 32, 32, 32, 32, 32,
       32, 32, 32, 32, 32, 32, 32, 40, 105, 103, 110, 111, 114, 101, 100, 41,
       32, 102, 111, 114, 32, 99, 111, 109, 112, 97, 116, 105, 98, 105, 108, 105,
       116, 121, 32, 119, 105, 116, 104, 32, 71, 78, 85, 32, 99, 97, 116, 10,
       32, 32, 32, 32, 45, 118, 32, 32, 32, 32, 32, 32, 32, 32, 32, 32,
       32, 32, 32, 32, 117, 115, 101, 32, 94, 32, 97, 110, 100, 32, 77, 45,
       32, 110, 111, 116, 97, 116, 105, 111, 110, 44, 32, 101, 120, 99, 101, 112,
       116, 32, 102, 111, 114, 32, 76, 70, 68, 32, 97, 110, 100, 32, 84, 65,
       66, 10, 32, 32, 32, 32, 45, 104, 44, 32, 45, 63, 44, 32, 45, 45,
       104, 101, 108, 112, 32, 32, 100, 105, 115, 112, 108, 97, 121, 32, 116, 104,
       105, 115, 32, 104, 101, 108, 112, 32, 97, 110, 100, 32, 101, 120, 105, 116,
       10, 10, 69, 120, 97, 109, 112, 108, 101, 115, 58, 10, 32, 32, 32, 32,
       114, 111, 99, 97, 116, 32, 102, 32, 45, 32, 103, 32, 32, 32, 32, 32,
       32, 79, 117, 116, 112, 117, 116, 32, 102, 39, 115, 32, 99, 111, 110, 116,
       101, 110, 116, 115, 44, 32, 116, 104, 101, 110, 32, 115, 116, 97, 110, 100,
       97, 114, 100, 32, 105, 110, 112, 117, 116, 44, 32, 116, 104, 101, 110, 32,
       103, 39, 115, 32, 99, 111, 110, 116, 101, 110, 116, 115, 46, 10, 32, 32,
       32, 32, 114, 111, 99, 97, 116, 32, 32, 32, 32, 32, 32, 32, 32, 32,
       32, 32, 32, 67, 111, 112, 121, 32, 115, 116, 97, 110, 100, 97, 114, 100,
       32, 105, 110, 112, 117, 116, 32, 116, 111, 32, 115, 116, 97, 110, 100, 97,
       114, 100, 32, 111, 117, 116, 112, 117, 116, 46, 10, 10, 80, 108, 101, 97,
       115, 101, 32, 114, 101, 112, 111, 114, 116, 32, 98, 117, 103, 115, 32, 116,
       111, 58, 32, 104, 116, 116, 112, 115, 58, 47, 47, 103, 105, 116, 104, 117,
       98, 46, 99, 111, 109, 47, 114, 119, 111, 108, 105, 118, 101, 114, 50, 47,
       114, 111, 99, 97, 116, 47, 105, 115, 115, 117, 101, 115, 10 >>

\* the Options value before main has built it
NoOptions ==
    [numbering_mode |-> "None", show_ends |-> FALSE, squeeze_blank |-> FALSE,
     show_tabs |-> FALSE, show_nonprinting |-> FALSE, unbuffered |-> FALSE]

\* lines 51-53, 23-45: print_help: one println! of the usage text and
\* process::exit(0); println! panics when the write fails, with a message
\* on standard error that is lost when that write fails too
Help ==
    /\ pc = "main"
    /\ HelpRequested(args)
    /\ IF sink = "ok"
       THEN /\ out' = out \o UsageText
            /\ exit_code' = 0
            /\ err' = err
            /\ errsink' = errsink
       ELSE /\ out' = out
            /\ exit_code' = 101
            /\ \E gone \in StderrGone :
                  /\ err' = ErrAfter([kind |-> "panic", src |-> 0, path |-> ""], gone)
                  /\ errsink' = StderrAfter(gone)
    /\ pc' = "exit"
    /\ UNCHANGED <<args, options, files, reader, line_number, last_was_blank,
                   result, sink, srcs, log>>

\* lines 56-81: build the options, then choose between standard input and the
\* file arguments
Start ==
    /\ pc = "main"
    /\ ~HelpRequested(args)
    /\ options' = ParseOptions(args)
    /\ IF HasFiles(args)
       THEN files' = FileArgs(args) /\ pc' = "files"
       ELSE files' = files /\ pc' = "stdin"
    /\ UNCHANGED <<args, errsink, reader, line_number, last_was_blank, result, out, err,
                   sink, exit_code, srcs, log>>

\* what a source can hold when it is opened: two texts, "a" LF LF and
\* LF LF U+00C0, and the first text with its second read failing
TextA == <<97, LF, LF>>
TextB == <<LF, LF, 192>>

Missing == [exists |-> FALSE, text |-> <<>>, fault |-> 0]
Readable(t, fault) == [exists |-> TRUE, text |-> t, fault |-> fault]

StdinStates == { Readable(TextA, 0), Readable(TextB, 0), Readable(TextA, 2) }
FileStates == StdinStates \cup { Missing }

\* the history entry of a source: standard input ("stdin") or a path that
\* File::open was called on ("file")
Source(kind, path, f) ==
    [kind |-> kind, path |-> path, opened |-> f.exists, text |-> f.text,
     fault |-> f.fault, at |-> Len(out)]

\* lines 75, 97-100, 109-112, 121-122: cat_stdin up to the loop
OpenStdin ==
    /\ pc = "stdin"
    /\ \E f \in StdinStates :
          /\ reader' = [rest |-> ReadResults(f.text, f.fault), pos |-> 0]
          /\ srcs' = Append(srcs, Source("stdin", "", f))
    /\ line_number' = NewState.line_number
    /\ last_was_blank' = NewState.last_was_blank
    /\ pc' = "lines"
    /\ UNCHANGED <<args, errsink, options, files, result, out, err, sink, exit_code, log>>

\* lines 83-84, 103-106, 109-112, 121-122: the next path opens; cat_file up to
\* the loop
OpenFile ==
    /\ pc = "files"
    /\ files # <<>>
    /\ \E f \in FileStates :
          /\ f.exists
          /\ reader' = [rest |-> ReadResults(f.text, f.fault), pos |-> 0]
          /\ srcs' = Append(srcs, Source("file", Head(files), f))
    /\ files' = Tail(files)
    /\ line_number' = NewState.line_number
    /\ last_was_blank' = NewState.last_was_blank
    /\ pc' = "lines"
    /\ UNCHANGED <<args, errsink, options, result, out, err, sink, exit_code, log>>

\* lines 83-84, 104: File::open fails and `?` returns the error
OpenFails ==
    /\ pc = "files"
    /\ files # <<>>
    /\ srcs' = Append(srcs, Source("file", Head(files), Missing))
    /\ files' = Tail(files)
    /\ result' = "open_err"
    /\ pc' = "ret"
    /\ UNCHANGED <<args, errsink, options, reader, line_number, last_was_blank, out, err,
                   sink, exit_code, log>>

\* the paths still to attempt after a file failed (lines 83-87: the loop goes on)
AfterFailure(rest) == rest

\* lines 84-86: cat_file returned Err: eprintln!("Error reading {}: {}", ...),
\* and the loop goes on; eprintln! panics when the write to standard error
\* fails, which ends the process with the later paths not attempted
FileFailed ==
    /\ pc = "ret"
    /\ HasFiles(args)
    /\ result # "ok"
    /\ \E gone \in StderrGone :
          /\ err' = ErrAfter([kind |-> result, src |-> Len(srcs),
                               path |-> srcs[Len(srcs)].path], gone)
          /\ errsink' = StderrAfter(gone)
          /\ IF gone
             THEN files' = files /\ exit_code' = 101 /\ pc' = "exit"
             ELSE files' = AfterFailure(files) /\ exit_code' = exit_code /\ pc' = "files"
    /\ UNCHANGED <<args, options, reader, line_number, last_was_blank, result,
                   out, sink, srcs, log>>

\* line 84: cat_file returned Ok
FileDone ==
    /\ pc = "ret"
    /\ HasFiles(args)
    /\ result = "ok"
    /\ pc' = "files"
    /\ UNCHANGED <<args, errsink, options, files, reader, line_number, last_was_blank,
                   result, out, err, sink, exit_code, srcs, log>>

\* the exit status of a process whose main returns r (line 47: io::Result<()>)
ExitStatus_AlwaysZero(r) == 0
ExitStatus(r) == IF r = "ok" THEN 0 ELSE 1

\* line 75: return cat_stdin(&options): main returns what cat_stdin returned;
\* the runtime prints an Err to standard error, and goes on to the exit when
\* that write fails
StdinReturned ==
    /\ pc = "ret"
    /\ ~HasFiles(args)
    /\ exit_code' = ExitStatus(result)
    /\ IF result = "ok"
       THEN err' = err /\ errsink' = errsink
       ELSE \E gone \in StderrGone :
               /\ err' = ErrAfter([kind |-> result, src |-> Len(srcs), path |-> ""], gone)
               /\ errsink' = StderrAfter(gone)
    /\ pc' = "exit"
    /\ UNCHANGED <<args, options, files, reader, line_number, last_was_blank,
                   result, out, sink, srcs, log>>

\* lines 87-89: the loop is over, Ok(())
LoopEnd ==
    /\ pc = "files"
    /\ files = <<>>
    /\ exit_code' = ExitStatus("ok")
    /\ pc' = "exit"
    /\ UNCHANGED <<args, errsink, options, files, reader, line_number, last_was_blank,
                   result, out, err, sink, srcs, log>>

\* the reader of standard output goes away, before the program starts or
\* between two of its steps: from now on every write fails
ClosePipe ==
    /\ pc \in {"main", "stdin", "files", "lines"}
    /\ sink = "ok"
    /\ sink' = "broken"
    /\ UNCHANGED <<args, errsink, options, files, pc, reader, line_number, last_was_blank,
                   result, out, err, exit_code, srcs, log>>

\* argument vectors: the program name and up to n tokens
ArgLists(tokens, n) ==
    { <<"rocat">> \o t : t \in UNION { [1..k -> tokens] : k \in 0..n } }

MainTokens == {"-n", "-s", "-v", "-h", "f", "g", "-"}

InitWith(argLists) ==
    /\ args \in argLists
    /\ options = NoOptions
    /\ files = <<>>
    /\ pc = "main"
    /\ reader = [rest |-> <<>>, pos |-> 0]
    /\ line_number = 1
    /\ last_was_blank = FALSE
    /\ result = "none"
    /\ out = <<>>
    /\ err = <<>>
    /\ sink = "ok"
    /\ errsink = "ok"
    /\ exit_code = -1
    /\ srcs = <<>>
    /\ log = <<>>

Init == InitWith(ArgLists(MainTokens, MaxArgs))

Next ==
    \/ Help \/ Start \/ OpenStdin \/ OpenFile \/ OpenFails
    \/ EndOfInput \/ ReadError \/ SqueezeLine \/ EmitLine \/ PanicLine \/ WriteFail
    \/ FileFailed \/ FileDone \/ StdinReturned \/ LoopEnd \/ ClosePipe

Spec == Init /\ [][Next]_vars

(* Option parsing on its own: every flag token, in every order.            *)

ParseTokens == FlagTokens \cup {"f", "-"}

InitArgs == InitWith(ArgLists(ParseTokens, MaxFlagArgs))

NextArgs == Help \/ Start

SpecArgs == InitArgs /\ [][NextArgs]_vars

\* the whole program on command lines over every flag token, with a standard
\* output that takes every write
NextOptions ==
    \/ Help \/ Start \/ OpenStdin \/ OpenFile \/ OpenFails
    \/ EndOfInput \/ ReadError \/ SqueezeLine \/ EmitLine \/ PanicLine
    \/ FileFailed \/ FileDone \/ StdinReturned \/ LoopEnd

SpecOptions == InitArgs /\ [][NextOptions]_vars

---------------------------------------------------------------------------
(* What the claims read off a state.                                       *)

\* the output of the i-th logged line: from where it starts to where the next
\* logged line starts
SegEnd(i) == IF i < Len(log) THEN log[i + 1].at ELSE Len(out)
Seg(i) == SubSeq(out, log[i].at + 1, SegEnd(i))

RECURSIVE IndexOfTab(_, _)
IndexOfTab(s, i) ==
    IF i > Len(s) THEN 0
    ELSE IF s[i] = TAB THEN i ELSE IndexOfTab(s, i + 1)

IsDigit(c) == c >= 48 /\ c <= 57

\* the decimal number a sequence of digits denotes
RECURSIVE Value(_)
Value(d) ==
    IF d = <<>> THEN 0 ELSE 10 * Value(SubSeq(d, 1, Len(d) - 1)) + (d[Len(d)] - 48)

\* a number field: at least 6 characters, spaces then one digit or more
IsField(f) ==
    /\ Len(f) >= FieldWidth
    /\ \E k \in 0..(Len(f) - 1) :
          /\ \A j \in 1..k : f[j] = SPACE
          /\ \A j \in (k + 1)..Len(f) : IsDigit(f[j])
          /\ k > 0 => Len(f) = FieldWidth

\* the segment starts with a number field and a tab
HasNumberField(seg) ==
    LET p == IndexOfTab(seg, 1) IN p > 0 /\ IsField(SubSeq(seg, 1, p - 1))

FieldValue(seg) == Value(TrimStart(SubSeq(seg, 1, IndexOfTab(seg, 1) - 1)))

\* what the specification says of numbering: every line under All, the
\* non-blank lines under NonBlank
ShouldNumber(line) ==
    \/ options.numbering_mode = "All"
    \/ options.numbering_mode = "NonBlank" /\ Trim(line) # <<>>

\* how many of the first i logged lines of the same source as line i are to be numbered
Ordinal(i) ==
    Cardinality({ j \in 1..i : log[j].src = log[i].src /\ ShouldNumber(log[j].line) })

\* the i-th logged line's output after its number prefix
AfterPrefix(i) ==
    IF ShouldNumber(log[i].line)
    THEN SubSeq(Seg(i), IndexOfTab(Seg(i), 1) + 1, Len(Seg(i)))
    ELSE Seg(i)

RECURSIVE Terminated(_)
Terminated(ls) ==
    IF ls = <<>> THEN <<>> ELSE Head(ls) \o <<LF>> \o Terminated(Tail(ls))

PlainOptions ==
    /\ options.numbering_mode = "None"
    /\ ~options.show_ends /\ ~options.squeeze_blank
    /\ ~options.show_tabs /\ ~options.show_nonprinting

HasChar(t, c) == \E i \in 1..Len(t) : t[i] = c

---------------------------------------------------------------------------
(* Claims about the transformer, under SpecLines.                          *)

\* C1: with numbering None and every flag off, the output is the input lines,
\* in order, each unchanged and followed by exactly one newline: after k lines
\* were read the output is the first k lines, each with one LF; when the call
\* returns, every line was read; and for a text without CR the output is the
\* text itself, with an LF added if its end lacks one.
C1_RoundTrip ==
    PlainOptions =>
        LET text == srcs[1].text
            ls   == Lines(text)
        IN /\ out = Terminated(SubSeq(ls, 1, reader.pos))
           /\ Len(log) = reader.pos
           /\ pc = "ret" =>
                 /\ result = "ok"
                 /\ reader.pos = Len(ls)
                 /\ ~HasChar(text, CR) =>
                       out = IF text = <<>> \/ text[Len(text)] = LF
                             THEN text ELSE text \o <<LF>>

\* a call that returned after three lines, with a tab, a non-ASCII character
\* and an unterminated last line among them
C1_Witness ==
    /\ PlainOptions
    /\ pc = "ret"
    /\ reader.pos = 3
    /\ LET text == srcs[1].text
       IN /\ HasChar(text, TAB) /\ HasChar(text, 192) /\ ~HasChar(text, CR)
          /\ text[Len(text)] # LF
          /\ out = text \o <<LF>>

\* C2 for a source from its first line on, as far as the bound on its lines
\* goes: under numbering All or NonBlank, the k-th number prefix written is k:
\* a line that is to be numbered starts with a number field whose value is its
\* ordinal among the numbered lines of its source, a line that is not (a blank
\* line under NonBlank) starts with no number field, and the counter is one more
\* than the number of prefixes written, squeezed lines leaving it alone.
C2_PrefixIsOrdinal ==
    options.numbering_mode # "None" =>
        /\ \A i \in 1..Len(log) :
              IF ShouldNumber(log[i].line)
              THEN HasNumberField(Seg(i)) /\ FieldValue(Seg(i)) = Ordinal(i)
              ELSE ~HasNumberField(Seg(i))
        /\ line_number =
              1 + Cardinality({ j \in 1..Len(log) : ShouldNumber(log[j].line) })

\* C2 over the whole range of the counter: under numbering All or NonBlank
\* the counter is at least 1, every line that is to be numbered starts with a
\* number field, and the number of each numbered line is one more than the
\* number of the numbered line before it.
C2_NumbersIncreaseByOne ==
    options.numbering_mode # "None" =>
        /\ line_number >= 1
        /\ \A i \in 1..Len(log) :
              ShouldNumber(log[i].line) =>
                  /\ HasNumberField(Seg(i))
                  /\ \A j \in 1..(i - 1) :
                        ( /\ ShouldNumber(log[j].line)
                          /\ \A k \in (j + 1)..(i - 1) : ~ShouldNumber(log[k].line) )
                        => FieldValue(Seg(i)) - 1 = FieldValue(Seg(j))

\* NonBlank numbering with squeezing: a numbered line, a blank line emitted
\* without a number, a blank line squeezed, then the line numbered 2
C2_Witness ==
    /\ options.numbering_mode = "NonBlank"
    /\ options.squeeze_blank
    /\ pc = "ret"
    /\ reader.pos = 4
    /\ Len(log) = 3
    /\ ShouldNumber(log[1].line) /\ ~ShouldNumber(log[2].line)
    /\ log[3].idx = 4
    /\ FieldValue(Seg(3)) = 2

\* the maximal runs of blank lines of ls, as pairs <<first, last>>
BlankRuns(ls) ==
    { r \in (1..Len(ls)) \X (1..Len(ls)) :
        /\ r[1] <= r[2]
        /\ \A k \in r[1]..r[2] : Trim(ls[k]) = <<>>
        /\ r[1] > 1 => Trim(ls[r[1] - 1]) # <<>>
        /\ r[2] < Len(ls) => Trim(ls[r[2] + 1]) # <<>> }

\* C3: with squeeze_blank, of every maximal run of blank lines of a source
\* exactly one line is emitted, the first, whatever the other options; no two
\* consecutive emitted lines are blank, and the output has no two adjacent
\* blank lines.
C3_OneLinePerBlankRun ==
    options.squeeze_blank =>
        /\ \A i \in 1..(Len(log) - 1) :
              ~(Trim(log[i].line) = <<>> /\ Trim(log[i + 1].line) = <<>>)
        /\ LET ol == Lines(out)
           IN \A i \in 1..(Len(ol) - 1) :
                 ~(Trim(ol[i]) = <<>> /\ Trim(ol[i + 1]) = <<>>)
        /\ pc = "ret" =>
              \A r \in BlankRuns(Lines(srcs[1].text)) :
                 { i \in 1..Len(log) : log[i].idx \in r[1]..r[2] }
                    = { i \in 1..Len(log) : log[i].idx = r[1] }
                 /\ \E i \in 1..Len(log) : log[i].idx = r[1]

\* a run of two blank lines between two non-blank lines, one of them emitted
C3_Witness ==
    /\ options.squeeze_blank
    /\ pc = "ret"
    /\ <<2, 3>> \in BlankRuns(Lines(srcs[1].text))
    /\ Len(Lines(srcs[1].text)) = 4
    /\ Len(log) = 3
    /\ log[2].idx = 2 /\ log[3].idx = 4

\* caret notation as the specification states it: ^ and the character 64
\* code points up
CaretOf(c) == <<CARET, c + CaretOffset>>

RECURSIVE CaretBody(_)
CaretBody(line) ==
    IF line = <<>> THEN <<>>
    ELSE LET c == Head(line)
         IN (IF c = TAB THEN (IF options.show_tabs THEN <<CARET, 73>> ELSE <<TAB>>)
             ELSE IF ~IsAsciiGraphic(c) /\ ~IsAsciiWhitespace(c) THEN CaretOf(c)
             ELSE <<c>>) \o CaretBody(Tail(line))

\* C5: with show_nonprinting, every character that is no tab, not ASCII
\* graphic and not ASCII whitespace is written as ^ and the character with its
\* code point plus 64, DEL and code points from 192 up included, and the
\* program does not abort.
C5_CaretIsCodePointPlus64 ==
    options.show_nonprinting =>
        /\ exit_code # 101
        /\ \A i \in 1..Len(log) :
              log[i].full =>
                 AfterPrefix(i) = CaretBody(log[i].line) \o EndMarker(options) \o <<LF>>

\* the tab rule, read off a line and its output: a tab is "^I" under show_tabs
\* and itself otherwise; any other character is itself or two characters
RECURSIVE TabsByTabRule(_, _)
TabsByTabRule(line, seg) ==
    IF line = <<>> THEN TRUE
    ELSE IF seg = <<>> THEN FALSE
    ELSE IF Head(line) = TAB
         THEN IF options.show_tabs
              THEN /\ Len(seg) >= 2
                   /\ seg[1] = CARET /\ seg[2] = 73
                   /\ TabsByTabRule(Tail(line), SubSeq(seg, 3, Len(seg)))
              ELSE /\ seg[1] = TAB
                   /\ TabsByTabRule(Tail(line), Tail(seg))
    ELSE IF seg[1] = Head(line)
         THEN TabsByTabRule(Tail(line), Tail(seg))
         ELSE /\ Len(seg) >= 2
              /\ seg[1] = CARET
              /\ TabsByTabRule(Tail(line), SubSeq(seg, 3, Len(seg)))

\* C6: under every option combination a tab of a line body is written as "^I"
\* when show_tabs is on and as the tab itself when it is off, show_nonprinting
\* or not.
C6_TabRuleOnly ==
    \A i \in 1..Len(log) : log[i].full => TabsByTabRule(log[i].line, AfterPrefix(i))

\* a line with a tab written under show_nonprinting without show_tabs: the tab
\* is in the output, after a number prefix
C6_Witness ==
    /\ options.show_nonprinting /\ ~options.show_tabs
    /\ options.numbering_mode = "All"
    /\ \E i \in 1..Len(log) :
          /\ log[i].full
          /\ HasChar(log[i].line, TAB)
          /\ HasChar(AfterPrefix(i), TAB)

---------------------------------------------------------------------------
(* Claims about option parsing, under SpecArgs.                            *)

\* the token is among the arguments after the program name
Given(f) == \E i \in 2..Len(args) : args[i] = f





\* C4: once main has built the options, the numbering mode is All whenever -n
\* is given, with or without -b and wherever the two stand; it is NonBlank
\* exactly when -b is given and -n is not, and None exactly when neither is.
C4_NumberAllWins ==
    pc \in {"stdin", "files"} =>
        /\ (Given("-n") /\ Given("-b")) => options.numbering_mode = "All"
        /\ options.numbering_mode = "All" <=> Given("-n")
        /\ options.numbering_mode = "NonBlank" <=> (Given("-b") /\ ~Given("-n"))
        /\ options.numbering_mode = "None" <=> (~Given("-b") /\ ~Given("-n"))

\* -b first, a path, then -n: the mode built is All
C4_Witness ==
    /\ pc = "files"
    /\ args = <<"rocat", "-b", "f", "-n">>
    /\ options.numbering_mode = "All"

---------------------------------------------------------------------------
(* Claims about the whole program, under Spec.                             *)

Paths(ss) == [i \in 1..Len(ss) |-> ss[i].path]

Panicked == exit_code = 101

\* C7 as stated: when a file cannot be opened or a read of it fails, the next
\* step reports an error naming its path and goes back to the loop with the
\* later paths untouched; at every moment the paths attempted so far followed by the paths
\* still to attempt are the non-flag arguments in order, so that when the loop
\* ends every one of them was attempted, whatever failed before it.
C7_FailureIsolated ==
    [][ /\ (pc = "ret" /\ HasFiles(args) /\ result \in {"open_err", "read_err"}) =>
              /\ err' = Append(err, [kind |-> result, src |-> Len(srcs),
                                     path |-> FileArgs(args)[Len(srcs)]])
              /\ srcs' = srcs
              /\ pc' = "files"
        /\ (HasFiles(args) /\ ~HelpRequested(args) /\ pc' # "main") =>
              /\ Paths(srcs') \o files' = FileArgs(args)
              /\ (pc = "files" /\ pc' = "exit") => Paths(srcs) = FileArgs(args)
      ]_vars

\* the same, of the steps in which standard error takes what is written to it
C7_IsolatedWhileReported ==
    [][ errsink' = "ok" =>
        /\ (pc = "ret" /\ HasFiles(args) /\ result \in {"open_err", "read_err"}) =>
              /\ err' = Append(err, [kind |-> result, src |-> Len(srcs),
                                     path |-> FileArgs(args)[Len(srcs)]])
              /\ srcs' = srcs
              /\ pc' = "files"
        /\ (HasFiles(args) /\ ~HelpRequested(args) /\ pc' # "main") =>
              /\ Paths(srcs') \o files' = FileArgs(args)
              /\ (pc = "files" /\ pc' = "exit") => Paths(srcs) = FileArgs(args)
      ]_vars

\* the report of a failed file was lost with standard error: the process has
\* ended with status 101 and a later path was never attempted
C7_ReportPanics ==
    /\ pc = "exit" /\ exit_code = 101
    /\ errsink = "broken" /\ err = <<>>
    /\ srcs # <<>> /\ ~srcs[Len(srcs)].opened
    /\ files # <<>>

\* three paths: the first does not open, a read of the second fails, both are
\* reported by path, and a line of the third is written before main returns
C7_Witness ==
    /\ pc = "exit" /\ exit_code = 0
    /\ Len(srcs) = 3
    /\ ~srcs[1].opened
    /\ Len(err) = 2
    /\ err[1].kind = "open_err" /\ err[1].path = args[2]
    /\ err[2].kind = "read_err" /\ err[2].path = args[3]
    /\ \E i \in 1..Len(log) : log[i].src = 3 /\ log[i].full

\* C8: a failed write is fatal: once it is reported no further source is
\* attempted, and the process does not end with a success exit.
C8_WriteErrorFatal ==
    \A i \in 1..Len(err) :
        err[i].kind = "write_err" =>
            /\ Len(srcs) = err[i].src
            /\ pc = "exit" => exit_code # 0

\* a source could not be opened or read, and the failure is on the error stream
SourceFailed == \E i \in 1..Len(err) : err[i].kind \in {"open_err", "read_err"}

\* C9: a source failure is never turned into a failing exit: a process that
\* reported one and ended (without a panic) ended with a success exit,
\* standard input or file arguments alike.
C9_AlwaysSuccessExit ==
    (pc = "exit" /\ ~Panicked /\ SourceFailed) => exit_code = 0

\* the read of standard input fails before any write does
StdinReadFails ==
    /\ srcs # <<>>
    /\ srcs[1].fault \in 1..Len(Lines(srcs[1].text))
    /\ sink = "ok"

\* C9 (amended): with a file argument, whenever main returns it returns success,
\* after the last path was attempted and with one message on the error stream
\* per failed source; with standard input as the source, main returns what
\* reading it returned: success when nothing failed, and a failure exit, with
\* the error on the error stream if that stream takes it, when the read (or a
\* write) failed.
C9_ExitStatusBySourceKind ==
    (pc = "exit" /\ ~Panicked /\ ~HelpRequested(args)) =>
        IF HasFiles(args)
        THEN /\ exit_code = 0
             /\ files = <<>>
             /\ Paths(srcs) = FileArgs(args)
             /\ \A i \in 1..Len(srcs) : ~srcs[i].opened => \E j \in 1..Len(err) : err[j].src = i
        ELSE /\ Len(srcs) = 1
             /\ exit_code \in {0, 1}
             /\ exit_code = 0 => err = <<>>
             /\ (exit_code = 1 /\ errsink = "ok") => Len(err) = 1
             /\ StdinReadFails => exit_code = 1
             /\ (srcs[1].fault = 0 /\ sink = "ok") => exit_code = 0

\* standard input whose second read fails: the first line was written, the
\* error is on the error stream and the exit status is 1
C9_Witness ==
    /\ pc = "exit"
    /\ ~HasFiles(args)
    /\ StdinReadFails
    /\ Len(log) = 1
    /\ Len(err) = 1 /\ err[1].kind = "read_err"
    /\ exit_code = 1

\* what was written of a line starts as a line numbered 1 does: the field
\* "     1" and the tab, or, cut short by a failed write, a part of them
StartsNumberOne(seg) ==
    LET one == <<SPACE, SPACE, SPACE, SPACE, SPACE, 49, TAB>>
    IN IF Len(seg) >= Len(one)
       THEN HasNumberField(seg) /\ FieldValue(seg) = 1
       ELSE seg = SubSeq(one, 1, Len(seg))

\* C10: every source starts with fresh transformer state: the loop is entered
\* with the counter at 1 and the flag false; the first numbered line of every
\* source carries the number 1 (as far as it was written, when its write
\* failed); and the first line of a source, blank or not,
\* is emitted whatever the sources before it ended with (squeeze_blank on
\* included), as long as it could be read and written.
C10_FreshStatePerSource ==
    /\ (pc = "lines" /\ reader.pos = 0) => (line_number = 1 /\ ~last_was_blank)
    /\ \A i \in 1..Len(log) :
          (ShouldNumber(log[i].line) /\ Ordinal(i) = 1) =>
              StartsNumberOne(Seg(i))
    /\ \A s \in 1..Len(srcs) :
          ( /\ srcs[s].opened
            /\ Lines(srcs[s].text) # <<>>
            /\ srcs[s].fault # 1
            /\ sink = "ok"
            /\ s < Len(srcs) \/ reader.pos >= 1 )
          => \E i \in 1..Len(log) : log[i].src = s /\ log[i].idx = 1

\* squeeze_blank on, the first source ended with a blank line that was emitted,
\* and the blank first line of the second source was emitted too
C10_Witness ==
    /\ options.squeeze_blank
    /\ Len(srcs) = 2
    /\ \E i \in 1..(Len(log) - 1) :
          /\ log[i].src = 1 /\ Trim(log[i].line) = <<>> /\ log[i].full
          /\ log[i + 1].src = 2 /\ log[i + 1].idx = 1
          /\ Trim(log[i + 1].line) = <<>> /\ log[i + 1].full

\* the flag tokens of the command line, as the interface lists them
RecognizedFlags ==
    {"-b", "-e", "-E", "-n", "-s", "-t", "-T", "-u", "-v", "-h", "-?", "--help"}

RECURSIVE Without(_, _)
\* the elements of seq that are not in set, in their order
Without(seq, set) ==
    IF seq = <<>> THEN <<>>
    ELSE IF Head(seq) \in set THEN Without(Tail(seq), set)
    ELSE <<Head(seq)>> \o Without(Tail(seq), set)

\* the source tokens: the arguments after the program name that are no flag
PathTokens == Without(Tail(args), RecognizedFlags)

\* the first argument after the program name is a help flag
FirstIsHelp == Len(args) >= 2 /\ args[2] \in {"-h", "--help", "-?"}

\* the usage text is what standard output starts with
UsagePrinted ==
    Len(out) >= Len(UsageText) /\ SubSeq(out, 1, Len(UsageText)) = UsageText

\* with a help flag only in a later position no usage text is printed, the
\* help flag is never attempted as a source, and the sources are processed as
\* without it: the source tokens in order, or standard input when there is none
LaterHelpIsFlag ==
    ~FirstIsHelp =>
          /\ ~UsagePrinted
          /\ \A i \in 1..Len(srcs) : srcs[i].path \notin {"-h", "--help", "-?"}
          /\ pc # "main" =>
                IF PathTokens = <<>>
                THEN /\ files = <<>>
                     /\ pc # "stdin" =>
                           (Len(srcs) = 1 /\ srcs[1].kind = "stdin")
                ELSE /\ Paths(srcs) \o files = PathTokens
                     /\ \A i \in 1..Len(srcs) : srcs[i].kind = "file"

\* with a help flag as first argument no source is opened or read and no
\* transformed line is written
HelpTouchesNoSource ==
    FirstIsHelp =>
        /\ pc \in {"main", "exit"}
        /\ srcs = <<>> /\ log = <<>>
        /\ pc = "main" => (out = <<>> /\ err = <<>>)

\* C11 as stated: with a help flag as first argument the program never opens
\* or reads a source and never writes a transformed line, and it ends with the
\* usage text printed and exit status 0; a help flag in a later position is a
\* flag token like another.
C11_HelpOnlyFirst ==
    /\ HelpTouchesNoSource
    /\ (FirstIsHelp /\ pc = "exit") =>
          (out = UsageText /\ exit_code = 0 /\ err = <<>>)
    /\ LaterHelpIsFlag

\* C11, amended: with a help flag as first argument the program never opens or
\* reads a source and never writes a transformed line; it ends with the usage
\* text as its whole output and exit status 0 when standard output takes the
\* write, and with nothing printed, a panic message on standard error (if
\* that stream takes it) and exit status 101 when it does not; a help flag in
\* a later position is a flag token like another.
C11_HelpUnlessWriteFails ==
    /\ HelpTouchesNoSource
    /\ (FirstIsHelp /\ pc = "exit") =>
          IF sink = "ok"
          THEN out = UsageText /\ exit_code = 0 /\ err = <<>>
          ELSE /\ out = <<>> /\ exit_code = 101
               /\ \A i \in 1..Len(err) : err[i].kind = "panic"
               /\ Len(err) = IF errsink = "ok" THEN 1 ELSE 0
    /\ LaterHelpIsFlag

\* help first, a path after it: the process has ended with the usage text as
\* its whole output and the path was never opened
C11_Witness ==
    /\ args = <<"rocat", "-h", "f">>
    /\ pc = "exit" /\ exit_code = 0
    /\ out = UsageText
    /\ srcs = <<>>

\* a path first, the help flag after it: the path was read and written and no
\* usage text was printed
C11_LaterHelp ==
    /\ args = <<"rocat", "f", "-h">>
    /\ pc = "exit" /\ exit_code = 0
    /\ Paths(srcs) = <<"f">>
    /\ \E i \in 1..Len(log) : log[i].full
    /\ ~UsagePrinted

\* standard input has been taken as a source
StdinRead == \E i \in 1..Len(srcs) : srcs[i].kind = "stdin"

\* every source token so far was attempted as the file path it spells, "-"
\* included, and a path that did not open was reported under that name
PathsAttempted ==
    /\ Paths(srcs) \o files = PathTokens
    /\ \A i \in 1..Len(srcs) :
          /\ srcs[i].kind = "file"
          /\ (~srcs[i].opened /\ (i < Len(srcs) \/ pc = "files"
                                                  \/ (pc = "exit" /\ ~Panicked))) =>
                \E j \in 1..Len(err) :
                    err[j] = [kind |-> "open_err", src |-> i, path |-> PathTokens[i]]

\* C12 as stated: a process that has ended read standard input exactly when no
\* argument after the program name is a source token, and otherwise attempted
\* every source token as a file path.
C12_StdinIffNoPathToken ==
    pc = "exit" =>
        /\ StdinRead <=> PathTokens = <<>>
        /\ (PathTokens # <<>> /\ ~Panicked) => (PathsAttempted /\ files = <<>>)

\* C12, amended: unless the first argument is a help flag, standard input is
\* read exactly when no argument after the program name is a source token: it
\* is the single source then; as soon as there is a source token standard
\* input is never read and every source token, "-" included, is attempted as
\* the file path it spells, all of them by the time main returns.
C12_StdinUnlessHelpOrPath ==
    (~FirstIsHelp /\ pc # "main") =>
        /\ StdinRead => (PathTokens = <<>> /\ Len(srcs) = 1)
        /\ (PathTokens = <<>> /\ pc # "stdin") => StdinRead
        /\ PathTokens # <<>> =>
              /\ ~StdinRead
              /\ PathsAttempted
              /\ (pc = "exit" /\ ~Panicked) => files = <<>>

\* "-" between a flag and a path: both "-" and the path were attempted as
\* files, "-" did not open and was reported by that name, and standard input
\* was not read
C12_Witness ==
    /\ args = <<"rocat", "-n", "-", "f">>
    /\ pc = "exit"
    /\ Paths(srcs) = <<"-", "f">>
    /\ srcs[1].kind = "file" /\ ~srcs[1].opened
    /\ \E j \in 1..Len(err) : err[j].kind = "open_err" /\ err[j].path = "-"
    /\ ~StdinRead

---------------------------------------------------------------------------
(* Claims the usage text makes (print_help), checked against main.         *)

\* C13: as the usage text has it, -b overrides -n: once main has built the
\* options with both -b and -n given, the numbering mode is NonBlank, so that
\* only non-blank lines are numbered.
C13_NonBlankOverrides ==
    (pc \in {"stdin", "files"} /\ Given("-b") /\ Given("-n")) =>
        options.numbering_mode = "NonBlank"

\* C14: as the usage text has it, a FILE argument "-" stands for standard
\* input at that position: the source attempted for a "-" among the source
\* tokens (the second one of f - g) is standard input.
C14_DashReadsStdin ==
    \A i \in 1..Len(srcs) :
        (PathTokens # <<>> /\ PathTokens[i] = "-") => srcs[i].kind = "stdin"

---------------------------------------------------------------------------
(* Output lines of the transformer, under SpecLines.                       *)

\* how many times c occurs in t
RECURSIVE Count(_, _)
Count(t, c) ==
    IF t = <<>> THEN 0
    ELSE (IF Head(t) = c THEN 1 ELSE 0) + Count(Tail(t), c)

\* the output of the i-th line that passed the squeeze check is one line: it
\* ends with the only newline it has; with show_ends the character before the
\* newline is a "$" that the input line did not have, without show_ends the
\* output has as many "$" as the input line
OneOutputLine(i) ==
    LET seg == Seg(i)
        n   == Len(seg)
    IN /\ n >= 1 /\ seg[n] = LF
       /\ Count(seg, LF) = 1
       /\ options.show_ends =>
             /\ n >= 2 /\ seg[n - 1] = DOLLAR
             /\ Count(seg, DOLLAR) = Count(log[i].line, DOLLAR) + 1
       /\ ~options.show_ends =>
             Count(seg, DOLLAR) = Count(log[i].line, DOLLAR)

\* C15: under every option combination every input line consumed so far that
\* the squeeze check did not discard has produced exactly one output line,
\* ended by exactly one newline, with a single "$" before the newline exactly
\* when show_ends is on, blank lines included.
C15_OneTerminatedLinePerLine ==
    /\ Count(out, LF) = Len(log)
    /\ \A i \in 1..Len(log) : OneOutputLine(i)

\* the same of the lines whose body was written: it holds of every one of them
C15_WrittenLines ==
    /\ Count(out, LF) = Cardinality({i \in 1..Len(log) : log[i].full})
    /\ \A i \in 1..Len(log) : log[i].full => OneOutputLine(i)

\* the k-th input line is a blank line right after another blank line
FollowsBlank(ls, k) == k > 1 /\ Trim(ls[k]) = <<>> /\ Trim(ls[k - 1]) = <<>>

\* C18: under every option combination no non-blank input line is dropped: of
\* the input lines consumed so far, those that squeeze_blank discards (blank
\* lines right after another blank line, squeeze_blank on) have no output line
\* and every other one has produced exactly one, in the order of the input;
\* and with squeeze_blank off there are as many output lines as input lines.
C18_NoLineDropped ==
    LET ls == Lines(srcs[1].text)
    IN /\ \A k \in 1..reader.pos :
             Cardinality({ i \in 1..Len(log) : log[i].idx = k /\ log[i].full })
                = IF options.squeeze_blank /\ FollowsBlank(ls, k) THEN 0 ELSE 1
       /\ \A i \in 1..(Len(log) - 1) : log[i].idx < log[i + 1].idx
       /\ \A i \in 1..Len(log) : log[i].line = ls[log[i].idx]
       /\ ~options.squeeze_blank => Count(out, LF) = reader.pos

\* the same as long as no line has run into the panic of the caret arithmetic:
\* it holds then
C18_UnlessPanic == ~Panicked => C18_NoLineDropped

---------------------------------------------------------------------------
(* The order of sources and of their output, under Spec.                   *)

\* the sources attempted so far are the first source tokens, in order, each
\* once, and the rest is still to come in order
AttemptedInOrder ==
    (~FirstIsHelp /\ PathTokens # <<>> /\ pc # "main") =>
        Paths(srcs) \o files = PathTokens

\* output lines lie in the output in the order of their sources and, within a
\* source, of its input lines, and each within the stretch of output that
\* starts where its source was opened and ends where the next one was
OutputInOrder ==
    /\ \A i \in 1..Len(log) :
          LET s == log[i].src
          IN /\ srcs[s].at <= log[i].at
             /\ s < Len(srcs) => SegEnd(i) <= srcs[s + 1].at
    /\ \A i \in 1..(Len(log) - 1) :
          /\ log[i].src <= log[i + 1].src
          /\ log[i].at <= log[i + 1].at
          /\ log[i].src = log[i + 1].src => log[i].idx < log[i + 1].idx
    /\ \A s \in 1..(Len(srcs) - 1) : srcs[s].at <= srcs[s + 1].at

\* C16: sources are processed one at a time in argument order: a source is
\* opened only from the loop, one at a time, after the one before it ran to its
\* end (exhausted, or ended by an error); what is on standard output is never
\* changed, only extended; the output of an earlier source lies before that of
\* a later one and the output lines of one source are in the order of its
\* input lines; the sources attempted are the source tokens in order, none
\* twice, and all of them when main leaves the loop.
C16_SourcesInOrder ==
    [][ /\ Len(out') >= Len(out) /\ SubSeq(out', 1, Len(out)) = out
        /\ srcs' # srcs =>
              /\ pc \in {"stdin", "files"}
              /\ srcs = SubSeq(srcs', 1, Len(srcs)) /\ Len(srcs') = Len(srcs) + 1
              /\ srcs'[Len(srcs')].at = Len(out)
              /\ srcs # <<>> =>
                    \/ result = "ok" /\ reader.rest = <<>>
                    \/ result \in {"open_err", "read_err", "write_err"}
        /\ AttemptedInOrder'
        /\ OutputInOrder'
        /\ (pc = "files" /\ pc' = "exit") => Paths(srcs) = PathTokens
      ]_vars

\* two paths, both read: lines of the first and then lines of the second were
\* written, and main has returned
C16_Witness ==
    /\ args = <<"rocat", "f", "g">>
    /\ pc = "exit" /\ exit_code = 0
    /\ Paths(srcs) = <<"f", "g">>
    /\ \E i \in 1..(Len(log) - 1) :
          /\ log[i].src = 1 /\ log[i].full
          /\ log[i + 1].src = 2 /\ log[i + 1].full
          /\ i >= 2

---------------------------------------------------------------------------
(* The options as a function of the flags given, under SpecOptions.        *)

\* the recognized flag tokens among the arguments
FlagsGiven == { args[i] : i \in 2..Len(args) } \cap RecognizedFlags

\* the options the interface table gives for a set of flags
OptionsFor(fs) ==
    [numbering_mode   |-> IF "-n" \in fs THEN "All"
                          ELSE IF "-b" \in fs THEN "NonBlank" ELSE "None",
     show_ends        |-> fs \cap {"-e", "-E"} # {},
     squeeze_blank    |-> "-s" \in fs,
     show_tabs        |-> fs \cap {"-t", "-T"} # {},
     show_nonprinting |-> "-v" \in fs,
     unbuffered       |-> "-u" \in fs]

\* the command lines that have the arguments of args in another order, without
\* a help flag in first position
Reordered ==
    LET n  == Len(args) - 1
        ps == { p \in [1..n -> 1..n] : \A i, j \in 1..n : p[i] = p[j] => i = j }
        as == { <<args[1]>> \o [i \in 1..n |-> args[p[i] + 1]] : p \in ps }
    IN { a \in as : Len(a) < 2 \/ a[2] \notin {"-h", "--help", "-?"} }

\* the command lines that repeat one flag of args, at the front or at the end
Repeated ==
    UNION { { Append(args, f), <<args[1], f>> \o Tail(args) } : f \in FlagsGiven }

\* the i-th logged line was written under the options o: a number field if o
\* numbers it, then its body under o, the end marker of o and the newline
WrittenUnder(o, i) ==
    LET seg  == Seg(i)
        rest == Body(o, log[i].line) \o EndMarker(o) \o <<LF>>
    IN IF Numbered(o.numbering_mode, IsBlank(log[i].line))
       THEN /\ HasNumberField(seg)
            /\ SubSeq(seg, IndexOfTab(seg, 1) + 1, Len(seg)) = rest
       ELSE seg = rest

\* C17: the options depend only on which recognized flag tokens are given:
\* once built they are what the interface table gives for the set of flags
\* among the arguments, and they stay so; the same arguments in another order
\* (no help flag moved to the front), flags placed after a source token
\* included, or with a flag repeated, give the same options (compared when
\* main has built them, before the first source); and every line
\* written, of every source, the ones listed before a flag included, is
\* written under these options.
C17_OptionsFromFlagSet ==
    (~FirstIsHelp /\ pc # "main") =>
        /\ options = OptionsFor(FlagsGiven)
        /\ srcs = <<>> => \A a \in Reordered \cup Repeated : ParseOptions(a) = options
        /\ \A i \in 1..Len(log) :
              log[i].full => WrittenUnder(OptionsFor(FlagsGiven), i)

\* a path with -E and -n after it: its first line was written with a number
\* and an end marker
C17_Witness ==
    /\ args = <<"rocat", "f", "-E", "-n">>
    /\ pc = "exit"
    /\ options.show_ends /\ options.numbering_mode = "All"
    /\ Len(log) >= 1 /\ log[1].full
    /\ HasNumberField(Seg(1))
    /\ Seg(1)[Len(Seg(1)) - 1] = DOLLAR

===========================================================================
